---- MODULE Spec2Model ----
(***************************************************************************)
(* A model of keras.layers.Dense (src/keras/src/layers/core/dense.py): the *)
(* build / quantize / enable_lora lifecycle, the forward dispatch, and the *)
(* save_own_variables / load_own_variables pair with the LoRA merge.       *)
(*                                                                         *)
(* Floating-point values are modelled as exact rationals <<n, d>> (d > 0,  *)
(* lowest terms); int8 values are rationals with denominator 1.  A tensor  *)
(* is a record [shape, dtype, val] with val in row-major order; a layer    *)
(* variable adds the `trainable` flag.                                     *)
(***************************************************************************)
EXTENDS Integers, Sequences, FiniteSets, TLC

\* ------------------------------------------------------------------ bounds
MaxInputDim == 3
MaxUnits == 2
MaxRank == 2
MaxAlpha == 3
MaxSeed == 1
MaxQuantize == 1
MaxLoad == 2
MaxVariables == 12

\* ------------------------------------------------------- rational numbers
Abs(n) == IF n < 0 THEN -n ELSE n

RECURSIVE GCD(_, _)
GCD(a, b) == IF b = 0 THEN a ELSE GCD(b, a % b)

Rat(n, d) ==
    LET s == IF d < 0 THEN -1 ELSE 1
        g == GCD(Abs(n), Abs(d))
    IN  IF n = 0 THEN <<0, 1>> ELSE <<(s * n) \div g, (s * d) \div g>>

RInt(n) == <<n, 1>>

\* the operands are in lowest terms; common factors are cancelled before
\* multiplying, so intermediate products stay small
RAdd(a, b) ==
    IF a[2] = 1 /\ b[2] = 1 THEN <<a[1] + b[1], 1>>
    ELSE LET g == GCD(a[2], b[2])
         IN  Rat(a[1] * (b[2] \div g) + b[1] * (a[2] \div g), (a[2] \div g) * b[2])

RMul(a, b) ==
    LET g1 == GCD(Abs(a[1]), b[2])
        g2 == GCD(Abs(b[1]), a[2])
    IN  IF a[1] = 0 \/ b[1] = 0 THEN <<0, 1>>
        ELSE IF a[2] = 1 /\ b[2] = 1 THEN <<a[1] * b[1], 1>>
        ELSE Rat((a[1] \div g1) * (b[1] \div g2), (a[2] \div g2) * (b[2] \div g1))

RDiv(a, b) == RMul(a, IF b[1] < 0 THEN <<-b[2], -b[1]>> ELSE <<b[2], b[1]>>)
RAbs(a) == <<Abs(a[1]), a[2]>>

RLess(a, b) ==
    IF a[2] = b[2] THEN a[1] < b[1]
    ELSE LET g == GCD(a[2], b[2])
         IN  a[1] * (b[2] \div g) < b[1] * (a[2] \div g)

RMax(a, b) == IF RLess(a, b) THEN b ELSE a

\* round half to even, as ops.round does
RRound(a) ==
    LET q == a[1] \div a[2]
        r == a[1] % a[2]
    IN  IF 2 * r < a[2] THEN q
        ELSE IF 2 * r > a[2] THEN q + 1
        ELSE IF q % 2 = 0 THEN q ELSE q + 1

\* truncation toward zero, then wrap to the signed 8-bit range
RTruncInt8(a) ==
    LET t == IF a[1] >= 0 THEN a[1] \div a[2] ELSE -((-a[1]) \div a[2])
    IN  ((t + 128) % 256) - 128

Clip(x, lo, hi) == IF x < lo THEN lo ELSE IF x > hi THEN hi ELSE x

\* ------------------------------------------------------------------ tensors
RECURSIVE Prod(_)
Prod(s) == IF s = <<>> THEN 1 ELSE Head(s) * Prod(Tail(s))

Tensor(shape, dtype, val) == [shape |-> shape, dtype |-> dtype, val |-> val]

Fill(shape, dtype, x) == Tensor(shape, dtype, [k \in 1..Prod(shape) |-> x])

At(t, i, j) == t.val[(i - 1) * t.shape[2] + j]

\* element j of a per-channel vector, or the scalar itself (broadcasting)
Chan(t, j) == IF t.shape = <<>> THEN t.val[1] ELSE t.val[j]

RECURSIVE Dot(_, _, _, _, _)
Dot(a, b, i, j, l) ==
    IF l = 0 THEN RInt(0)
    ELSE RAdd(Dot(a, b, i, j, l - 1), RMul(At(a, i, l), At(b, l, j)))

\* ops.matmul on 2-D tensors of shapes (m, k) and (k, n)
matmul(a, b) ==
    LET m == a.shape[1]
        n == b.shape[2]
    IN  Tensor(<<m, n>>, "float32",
               [k \in 1..(m * n) |->
                   Dot(a, b, ((k - 1) \div n) + 1, ((k - 1) % n) + 1, a.shape[2])])

\* scalar * tensor
scale_by(c, t) == Tensor(t.shape, "float32", [k \in 1..Len(t.val) |-> RMul(c, t.val[k])])

\* ops.add on 2-D tensors: equal shapes, or one operand has a single row
\* that broadcasts over the rows of the other
broadcastable(a, b) ==
    /\ a.shape[2] = b.shape[2]
    /\ (a.shape[1] = b.shape[1] \/ a.shape[1] = 1 \/ b.shape[1] = 1)

add(a, b) ==
    LET rows == IF a.shape[1] > b.shape[1] THEN a.shape[1] ELSE b.shape[1]
        cols == a.shape[2]
        el(x, k) == IF x.shape[1] = 1 THEN x.val[((k - 1) % cols) + 1] ELSE x.val[k]
    IN  Tensor(<<rows, cols>>, "float32",
               [k \in 1..(rows * cols) |-> RAdd(el(a, k), el(b, k))])

\* ops.divide(ops.cast(kernel, float), kernel_scale): the scale broadcasts
\* over the last axis
divide(kernel, kscale) ==
    Tensor(kernel.shape, "float32",
           [k \in 1..Len(kernel.val) |->
               RDiv(kernel.val[k], Chan(kscale, ((k - 1) % kernel.shape[2]) + 1))])

\* a variable's initializer: seed 0 is "zeros", seed -1 is "ones", a
\* positive seed stands for an opaque initializer and yields a fixed
\* pattern of small integers
InitVal(seed, k) ==
    IF seed = 0 THEN RInt(0)
    ELSE IF seed < 0 THEN RInt(1)
    ELSE RInt(((seed * k * k + 2 * k + seed) % 5) - 2)

Initializer(seed, shape, dtype) ==
    Tensor(shape, dtype, [k \in 1..Prod(shape) |-> InitVal(seed, k)])

\* --------------------------------------------------------------- quantizers
RECURSIVE ColMaxAbs(_, _, _)
ColMaxAbs(t, j, i) ==
    IF i = 0 THEN RInt(0) ELSE RMax(ColMaxAbs(t, j, i - 1), RAbs(At(t, i, j)))

\* quantizers.abs_max_quantize(inputs, axis=0, value_range=(lo, hi)): one
\* scale per column, hi / max|x| (1 for an all-zero column); values are
\* round(x * scale) clamped to [lo, hi].  The scale keeps the reduced axis:
\* its shape is (1, columns).
abs_max_quantize(inputs, lo, hi) ==
    LET rows == inputs.shape[1]
        cols == inputs.shape[2]
        amax(j) == ColMaxAbs(inputs, j, rows)
        sc(j) == IF amax(j) = RInt(0) THEN RInt(1) ELSE RDiv(RInt(hi), amax(j))
        scales == [j \in 1..cols |-> sc(j)]
    IN  [value |-> Tensor(inputs.shape, "int8",
                          [k \in 1..(rows * cols) |->
                              RInt(Clip(RRound(RMul(inputs.val[k],
                                                    scales[((k - 1) % cols) + 1])),
                                        lo, hi))]),
         scale |-> Tensor(<<1, cols>>, "float32", scales)]

\* ops.squeeze(t, axis=0)
squeeze(t) == Tensor(Tail(t.shape), t.dtype, t.val)

Nibble(x) == x % 16
SignExtend(n) == IF n >= 8 THEN n - 16 ELSE n
ToInt8(u) == IF u >= 128 THEN u - 256 ELSE u

\* quantizers.pack_int4(values): rows 2i-1 and 2i (1-based) share a byte,
\* the first in the low nibble; an unpaired last row gets a zero partner
pack_int4(t) ==
    LET rows == t.shape[1]
        cols == t.shape[2]
        prows == (rows + 1) \div 2
        lowv(i, j) == At(t, 2 * i - 1, j)[1]
        highv(i, j) == IF 2 * i <= rows THEN At(t, 2 * i, j)[1] ELSE 0
    IN  Tensor(<<prows, cols>>, "int8",
               [k \in 1..(prows * cols) |->
                   LET i == ((k - 1) \div cols) + 1
                       j == ((k - 1) % cols) + 1
                   IN  RInt(ToInt8(Nibble(lowv(i, j)) + 16 * Nibble(highv(i, j))))])

\* quantizers.unpack_int4(packed, orig_rows): sign-extend both nibbles,
\* interleave the rows, cut to orig_rows rows
unpack_int4(packed, orig_rows) ==
    LET prows == packed.shape[1]
        cols == packed.shape[2]
        rows == IF orig_rows < 2 * prows THEN orig_rows ELSE 2 * prows
        byte(i, j) == At(packed, i, j)[1] % 256
        elem(r, j) ==
            IF r % 2 = 1 THEN SignExtend(byte((r + 1) \div 2, j) % 16)
            ELSE SignExtend(byte(r \div 2, j) \div 16)
    IN  Tensor(<<rows, cols>>, "int8",
               [k \in 1..(rows * cols) |->
                   RInt(elem(((k - 1) \div cols) + 1, ((k - 1) % cols) + 1))])

\* ------------------------------------------------------------ the layer
None == 0

NoVar == [shape |-> <<>>, dtype |-> "absent", val |-> <<>>, trainable |-> FALSE]
Has(v) == v.dtype # "absent"

Variable(t, trainable) ==
    [shape |-> t.shape, dtype |-> t.dtype, val |-> t.val, trainable |-> trainable]

\* ops.convert_to_tensor(variable): the value without the variable's flags
Value(v) == Tensor(v.shape, v.dtype, v.val)

Ok(s) == [self |-> s, raised |-> "none"]
Raise(s, e) == [self |-> s, raised |-> e]

\* Dense.__init__; `mode` is the quantization mode of the dtype policy the
\* layer is constructed with ("none" for a full-precision policy)
DenseInit(units, use_bias, kernel_initializer, kernel_constraint, lora_rank, lora_alpha, mode) ==
    [units |-> units,
     use_bias |-> use_bias,
     kernel_initializer |-> kernel_initializer,
     kernel_constraint |-> kernel_constraint,
     lora_rank |-> lora_rank,
     lora_alpha |-> IF lora_alpha # None THEN lora_alpha ELSE lora_rank,
     lora_enabled |-> FALSE,
     built |-> FALSE,
     quantization_mode |-> mode,
     is_quantized |-> FALSE,
     orig_input_dim |-> None,
     input_dim |-> None,
     n_variables |-> 0,
     n_quantize |-> 0,
     n_load |-> 0,
     kernel |-> NoVar,
     bias |-> NoVar,
     kernel_scale |-> NoVar,
     inputs_scale |-> NoVar,
     inputs_amax_history |-> NoVar,
     kernel_amax_history |-> NoVar,
     outputs_grad_scale |-> NoVar,
     outputs_grad_amax_history |-> NoVar,
     lora_kernel_a |-> NoVar,
     lora_kernel_b |-> NoVar]

\* self.<name> = self.add_weight(shape, initializer, dtype, trainable): the
\* new variable is tracked; a variable the attribute held before stays
\* tracked
add_weight(s, name, shape, seed, dtype, trainable) ==
    [s EXCEPT ![name] = Variable(Initializer(seed, shape, dtype), trainable),
              !.n_variables = @ + 1]

\* del self._kernel: the variable is untracked
del_kernel(s) == [s EXCEPT !.kernel = NoVar, !.n_variables = @ - 1]

Zeros == 0
Ones == -1
HeUniform == 1

\* _int8_build with the scale initialised to zeros
_int8_build_zero_scale(s, kernel_shape) ==
    add_weight(add_weight(s, "kernel", kernel_shape, Zeros, "int8", FALSE),
               "kernel_scale", <<s.units>>, Zeros, "float32", FALSE)

_int8_build(s, kernel_shape) ==
    add_weight(add_weight(s, "kernel", kernel_shape, Zeros, "int8", FALSE),
               "kernel_scale", <<s.units>>, Ones, "float32", FALSE)

\* _int4_build that records the packed row count as the original input
\* dimension
_int4_build_packed_dim(s, kernel_shape) ==
    LET input_dim == kernel_shape[1]
        output_dim == kernel_shape[2]
        packed_rows == (input_dim + 1) \div 2
        s1 == add_weight(s, "kernel", <<packed_rows, output_dim>>, Zeros, "int8", FALSE)
        s2 == add_weight(s1, "kernel_scale", <<s.units>>, Ones, "float32", FALSE)
    IN  [s2 EXCEPT !.orig_input_dim = packed_rows]

_int4_build(s, kernel_shape) ==
    LET input_dim == kernel_shape[1]
        output_dim == kernel_shape[2]
        packed_rows == (input_dim + 1) \div 2
        s1 == add_weight(s, "kernel", <<packed_rows, output_dim>>, Zeros, "int8", FALSE)
        s2 == add_weight(s1, "kernel_scale", <<s.units>>, Ones, "float32", FALSE)
    IN  [s2 EXCEPT !.orig_input_dim = input_dim]

AmaxHistoryLength == 2

_float8_build(s) ==
    LET sc(x, name) == add_weight(x, name, <<>>, Ones, "float32", TRUE)
        hist(x, name) == add_weight(x, name, <<AmaxHistoryLength>>, Zeros, "float32", TRUE)
    IN  hist(sc(hist(sc(hist(sc(s, "inputs_scale"), "inputs_amax_history"),
                         "kernel_scale"), "kernel_amax_history"),
                 "outputs_grad_scale"), "outputs_grad_amax_history")

quantized_build(s, kernel_shape, mode) ==
    IF mode = "int8" THEN Ok([_int8_build(s, kernel_shape) EXCEPT !.is_quantized = TRUE])
    ELSE IF mode = "int4" THEN Ok([_int4_build(s, kernel_shape) EXCEPT !.is_quantized = TRUE])
    ELSE IF mode = "float8" THEN Ok([_float8_build(s) EXCEPT !.is_quantized = TRUE])
    ELSE Raise(s, "NotImplementedError")

\* the `kernel` property
kernel(s) ==
    IF ~s.built \/ ~Has(s.kernel) THEN [raised |-> "AttributeError", value |-> NoVar]
    ELSE IF s.lora_enabled
    THEN LET delta == scale_by(Rat(s.lora_alpha, s.lora_rank),
                               matmul(s.lora_kernel_a, s.lora_kernel_b))
         IN  IF ~broadcastable(s.kernel, delta)
             THEN [raised |-> "ValueError: shapes", value |-> NoVar]
             ELSE [raised |-> "none", value |-> add(Value(s.kernel), delta)]
    ELSE [raised |-> "none", value |-> Value(s.kernel)]

\* enable_lora's allocation with factor B drawn from the initializer of
\* factor A
enable_lora_weights_b_like_a(s, rank, lora_alpha, a_initializer, b_initializer) ==
    LET use_orig == s.quantization_mode = "int4" /\ s.orig_input_dim # None
        k == kernel(s)
    IN  IF ~use_orig /\ k.raised # "none" THEN Raise(s, k.raised)
        ELSE LET input_dim_for_lora ==
                     IF use_orig THEN s.orig_input_dim ELSE k.value.shape[1]
                 s1 == add_weight(s, "lora_kernel_a", <<input_dim_for_lora, rank>>,
                                  a_initializer, "float32", TRUE)
             IN  IF k.raised # "none" THEN Raise(s1, k.raised)
                 ELSE LET s2 == add_weight(s1, "lora_kernel_b",
                                           <<rank, k.value.shape[2]>>,
                                           a_initializer, "float32", TRUE)
                      IN  Ok([s2 EXCEPT !.kernel.trainable = FALSE,
                                        !.lora_enabled = TRUE,
                                        !.lora_rank = rank,
                                        !.lora_alpha = IF lora_alpha # None
                                                       THEN lora_alpha ELSE rank])

\* Dense.enable_lora past its three checks: create both factors, freeze the
\* base kernel, record rank and alpha
enable_lora_weights(s, rank, lora_alpha, a_initializer, b_initializer) ==
    LET use_orig == s.quantization_mode = "int4" /\ s.orig_input_dim # None
        k == kernel(s)
    IN  IF ~use_orig /\ k.raised # "none" THEN Raise(s, k.raised)
        ELSE LET input_dim_for_lora ==
                     IF use_orig THEN s.orig_input_dim ELSE k.value.shape[1]
                 s1 == add_weight(s, "lora_kernel_a", <<input_dim_for_lora, rank>>,
                                  a_initializer, "float32", TRUE)
             IN  IF k.raised # "none" THEN Raise(s1, k.raised)
                 ELSE LET s2 == add_weight(s1, "lora_kernel_b",
                                           <<rank, k.value.shape[2]>>,
                                           b_initializer, "float32", TRUE)
                      IN  Ok([s2 EXCEPT !.kernel.trainable = FALSE,
                                        !.lora_enabled = TRUE,
                                        !.lora_rank = rank,
                                        !.lora_alpha = IF lora_alpha # None
                                                       THEN lora_alpha ELSE rank])

\* enable_lora without the "already enabled" check: a second call creates
\* the factors again
enable_lora_overwrites(s, rank, lora_alpha, a_initializer, b_initializer) ==
    IF s.kernel_constraint THEN Raise(s, "ValueError: kernel constraint")
    ELSE IF ~s.built THEN Raise(s, "ValueError: not built")
    ELSE enable_lora_weights(s, rank, lora_alpha, a_initializer, b_initializer)

\* Dense.enable_lora(rank, lora_alpha, a_initializer, b_initializer)
enable_lora(s, rank, lora_alpha, a_initializer, b_initializer) ==
    IF s.kernel_constraint THEN Raise(s, "ValueError: kernel constraint")
    ELSE IF ~s.built THEN Raise(s, "ValueError: not built")
    ELSE IF s.lora_enabled THEN Raise(s, "ValueError: lora already enabled")
    ELSE enable_lora_weights(s, rank, lora_alpha, a_initializer, b_initializer)

\* Dense.build(input_shape), input_shape[-1] = input_dim
build(s, input_dim) ==
    LET kernel_shape == <<input_dim, s.units>>
        s1 == IF s.quantization_mode # "none"
              THEN quantized_build(s, kernel_shape, s.quantization_mode).self
              ELSE s
        s2 == IF s1.quantization_mode \notin {"int8", "int4"}
              THEN add_weight(s1, "kernel", kernel_shape, s1.kernel_initializer,
                              "float32", TRUE)
              ELSE s1
        s3 == IF s2.use_bias
              THEN add_weight(s2, "bias", <<s2.units>>, Zeros, "float32", TRUE)
              ELSE s2
        s4 == [s3 EXCEPT !.input_dim = input_dim, !.built = TRUE]
    IN  IF s4.lora_rank # None
        THEN enable_lora(s4, s4.lora_rank, None, HeUniform, Zeros)
        ELSE Ok(s4)

\* Dense.quantize(mode); build_fails: the add_weight calls of
\* quantized_build raise (the backend cannot create the variable)
quantize(s, mode, build_fails) ==
    IF ~Has(s.kernel) THEN Raise(s, "AttributeError")
    ELSE
    LET kernel_shape == s.kernel.shape
        policy(x) == IF x.quantization_mode = "none"
                     THEN [x EXCEPT !.quantization_mode = mode] ELSE x
    IN  IF mode = "int8"
        THEN LET q == abs_max_quantize(Value(s.kernel), -127, 127)
                 kernel_scale == squeeze(q.scale)
                 s1 == del_kernel(s)
                 b == quantized_build(s1, kernel_shape, mode).self
             IN  IF build_fails THEN Raise(s1, "RuntimeError")
                 ELSE Ok(policy([b EXCEPT !.kernel.val = q.value.val,
                                          !.kernel_scale.val = kernel_scale.val]))
        ELSE IF mode = "int4"
        THEN LET q == abs_max_quantize(Value(s.kernel), -8, 7)
                 kernel_scale == squeeze(q.scale)
                 packed_kernel_value == pack_int4(q.value)
                 s1 == del_kernel(s)
                 b == quantized_build(s1, kernel_shape, mode).self
             IN  IF build_fails THEN Raise(s1, "RuntimeError")
                 ELSE Ok(policy([b EXCEPT !.kernel.val = packed_kernel_value.val,
                                          !.kernel_scale.val = kernel_scale.val]))
        ELSE IF mode = "float8"
        THEN IF build_fails THEN Raise(s, "RuntimeError")
             ELSE Ok(policy(quantized_build(s, kernel_shape, mode).self))
        ELSE Raise(s, "NotImplementedError")

NoneTensor == Tensor(<<>>, "absent", <<>>)

MergeFailed(e) == [raised |-> e, kernel_value |-> NoneTensor, kernel_scale |-> NoneTensor]


\* the LoRA branch requantizing with the int8 range whatever the mode
merge_lora_requantize_int8_range(s, int4, lo, hi) ==
    LET float_kernel ==
            IF int4
            THEN divide(unpack_int4(Value(s.kernel), s.orig_input_dim), s.kernel_scale)
            ELSE divide(Value(s.kernel), s.kernel_scale)
        lora_delta == scale_by(Rat(s.lora_alpha, s.lora_rank),
                               matmul(s.lora_kernel_a, s.lora_kernel_b))
    IN  IF ~broadcastable(float_kernel, lora_delta) THEN MergeFailed("ValueError: shapes")
        ELSE LET merged_float_kernel == add(float_kernel, lora_delta)
                 q == abs_max_quantize(merged_float_kernel, -127, 127)
             IN  [raised |-> "none",
                  kernel_value |-> IF int4 THEN pack_int4(q.value) ELSE q.value,
                  kernel_scale |-> squeeze(q.scale)]

\* the LoRA branch of _get_kernel_with_merged_lora: dequantize, add the
\* delta, requantize with the range (lo, hi), pack again for int4
merge_lora_requantize(s, int4, lo, hi) ==
    LET float_kernel ==
            IF int4
            THEN divide(unpack_int4(Value(s.kernel), s.orig_input_dim), s.kernel_scale)
            ELSE divide(Value(s.kernel), s.kernel_scale)
        lora_delta == scale_by(Rat(s.lora_alpha, s.lora_rank),
                               matmul(s.lora_kernel_a, s.lora_kernel_b))
    IN  IF ~broadcastable(float_kernel, lora_delta) THEN MergeFailed("ValueError: shapes")
        ELSE LET merged_float_kernel == add(float_kernel, lora_delta)
                 q == abs_max_quantize(merged_float_kernel, lo, hi)
             IN  [raised |-> "none",
                  kernel_value |-> IF int4 THEN pack_int4(q.value) ELSE q.value,
                  kernel_scale |-> squeeze(q.scale)]


\* _get_kernel_with_merged_lora taking the quantized branch only when LoRA
\* is enabled: without LoRA it returns the kernel property and no scale
_get_kernel_with_merged_lora_drops_scale(s) ==
    IF s.quantization_mode # "none" /\ s.lora_enabled
    THEN IF ~Has(s.kernel) \/ ~Has(s.kernel_scale) THEN MergeFailed("AttributeError")
         ELSE IF s.quantization_mode = "int4"
         THEN merge_lora_requantize(s, TRUE, -8, 7)
         ELSE IF s.quantization_mode = "int8"
         THEN merge_lora_requantize(s, FALSE, -127, 127)
         ELSE MergeFailed("ValueError: unsupported quantization mode")
    ELSE LET k == kernel(s)
         IN  IF k.raised # "none" THEN MergeFailed(k.raised)
             ELSE [raised |-> "none", kernel_value |-> k.value, kernel_scale |-> NoneTensor]

\* Dense._get_kernel_with_merged_lora()
_get_kernel_with_merged_lora(s) ==
    IF s.quantization_mode # "none"
    THEN IF ~Has(s.kernel) \/ ~Has(s.kernel_scale) THEN MergeFailed("AttributeError")
         ELSE IF ~s.lora_enabled
         THEN [raised |-> "none", kernel_value |-> Value(s.kernel),
               kernel_scale |-> Value(s.kernel_scale)]
         ELSE IF s.quantization_mode = "int4"
         THEN merge_lora_requantize(s, TRUE, -8, 7)
         ELSE IF s.quantization_mode = "int8"
         THEN merge_lora_requantize(s, FALSE, -127, 127)
         ELSE MergeFailed("ValueError: unsupported quantization mode")
    ELSE LET k == kernel(s)
         IN  IF k.raised # "none" THEN MergeFailed(k.raised)
             ELSE [raised |-> "none", kernel_value |-> k.value, kernel_scale |-> NoneTensor]


\* the walk with kernel_scale ahead of the bias
TargetNames_scale_first(s) ==
    (IF s.quantization_mode \in {"int8", "int4"} THEN <<"kernel_scale">> ELSE <<>>)
    \o (IF s.use_bias THEN <<"bias">> ELSE <<>>)
    \o (IF s.quantization_mode = "float8"
        THEN <<"inputs_scale", "inputs_amax_history", "kernel_scale",
               "kernel_amax_history", "outputs_grad_scale",
               "outputs_grad_amax_history">>
        ELSE <<>>)

\* the variables save and load walk after the kernel, in order
TargetNames(s) ==
    (IF s.use_bias THEN <<"bias">> ELSE <<>>)
    \o (IF s.quantization_mode \in {"int8", "int4"} THEN <<"kernel_scale">>
        ELSE IF s.quantization_mode = "float8"
        THEN <<"inputs_scale", "inputs_amax_history", "kernel_scale",
               "kernel_amax_history", "outputs_grad_scale",
               "outputs_grad_amax_history">>
        ELSE <<>>)


\* save_own_variables that also assigns the merged kernel and scale to the
\* layer's own variables
save_own_variables_in_place(s, store) ==
    IF ~s.built THEN [self |-> s, raised |-> "none", store |-> store]
    ELSE
    LET m == _get_kernel_with_merged_lora(s)
        names == TargetNames(s)
        target_variables ==
            <<m.kernel_value>>
            \o [i \in 1..Len(names) |->
                   IF names[i] = "kernel_scale" /\ s.quantization_mode \in {"int8", "int4"}
                   THEN m.kernel_scale
                   ELSE Value(s[names[i]])]
        n == Len(target_variables)
    IN  IF m.raised # "none" THEN [self |-> s, raised |-> m.raised, store |-> store]
        ELSE [self |-> [s EXCEPT !.kernel.val = m.kernel_value.val],
              raised |-> "none",
              store |-> target_variables \o SubSeq(store, n + 1, Len(store))]

\* Dense.save_own_variables(store): store[str(i)] is store[i + 1] here
save_own_variables(s, store) ==
    IF ~s.built THEN [self |-> s, raised |-> "none", store |-> store]
    ELSE
    LET m == _get_kernel_with_merged_lora(s)
        names == TargetNames(s)
        target_variables ==
            <<m.kernel_value>>
            \o [i \in 1..Len(names) |->
                   IF names[i] = "kernel_scale" /\ s.quantization_mode \in {"int8", "int4"}
                   THEN m.kernel_scale
                   ELSE Value(s[names[i]])]
        n == Len(target_variables)
    IN  IF m.raised # "none" THEN [self |-> s, raised |-> m.raised, store |-> store]
        ELSE [self |-> s, raised |-> "none",
              store |-> target_variables \o SubSeq(store, n + 1, Len(store))]

\* variable.assign(value): the value is converted to the variable's dtype
assign(v, value) ==
    [v EXCEPT !.val = IF v.dtype = "int8" /\ value.dtype # "int8"
                      THEN [k \in 1..Len(value.val) |-> RInt(RTruncInt8(value.val[k]))]
                      ELSE value.val]

\* for i, variable in enumerate(target_variables): variable.assign(store[str(i)])
RECURSIVE assign_all(_, _, _, _)
assign_all(s, names, store, i) ==
    IF i > Len(names) THEN Ok(s)
    ELSE IF i > Len(store) THEN Raise(s, "KeyError")
    ELSE IF store[i].shape # s[names[i]].shape THEN Raise(s, "ValueError: shape mismatch")
    ELSE assign_all([s EXCEPT ![names[i]] = assign(@, store[i])], names, store, i + 1)

\* Dense._check_load_own_variables(store)
_check_load_own_variables(s, store) ==
    IF Len(store) # s.n_variables
    THEN IF s.n_variables = 0 /\ ~s.built THEN "ValueError: never built"
         ELSE "ValueError: variable count mismatch"
    ELSE "none"

\* Dense.load_own_variables(store)
load_own_variables(s, store) ==
    LET chk == IF ~s.lora_enabled THEN _check_load_own_variables(s, store) ELSE "none"
    IN  IF chk # "none" THEN Raise(s, chk)
        ELSE IF ~s.built THEN Ok(s)
        ELSE IF ~Has(s.kernel) THEN Raise(s, "AttributeError")
        ELSE LET r == assign_all(s, <<"kernel">> \o TargetNames(s), store, 1)
             IN  IF r.raised # "none" THEN r
                 ELSE IF r.self.lora_enabled
                 THEN Ok([r.self EXCEPT
                             !.lora_kernel_a.val = [k \in 1..Len(@) |-> RInt(0)],
                             !.lora_kernel_b.val = [k \in 1..Len(@) |-> RInt(0)]])
                 ELSE r


\* ------------------------------------------------------- the forward pass
\* ops.transpose on a 2-D tensor
transpose(t) ==
    LET m == t.shape[1]
        n == t.shape[2]
    IN  Tensor(<<n, m>>, t.dtype,
               [k \in 1..(m * n) |-> At(t, ((k - 1) % m) + 1, ((k - 1) \div m) + 1)])

\* self.inputs_quantizer = AbsMaxQuantizer(axis=-1): one scale per row of
\* the inputs, 127 / max|x| (1 for an all-zero row)
inputs_quantizer(inputs) ==
    LET q == abs_max_quantize(transpose(inputs), -127, 127)
    IN  [value |-> transpose(q.value),
         scale |-> Tensor(<<inputs.shape[1], 1>>, "float32", q.scale.val)]

\* ops.divide(x, ops.multiply(inputs_scale, kernel_scale)): the inputs scale
\* broadcasts over the columns, the kernel scale over the rows
descale(x, inputs_scale, kernel_scale) ==
    Tensor(x.shape, "float32",
           [k \in 1..Len(x.val) |->
               RDiv(x.val[k],
                    RMul(inputs_scale.val[((k - 1) \div x.shape[2]) + 1],
                         Chan(kernel_scale, ((k - 1) % x.shape[2]) + 1)))])

NoOutputs(e) == [raised |-> e, outputs |-> NoneTensor]

\* x = ops.add(x, self.bias) when the layer has a bias; no activation
add_bias(s, x) ==
    IF Has(s.bias) THEN add(x, Tensor(<<1, s.bias.shape[1]>>, "float32", s.bias.val))
    ELSE x

\* x = ops.add(x, (self.lora_alpha / self.lora_rank) * lora_x)
lora_term(s, inputs) ==
    scale_by(Rat(s.lora_alpha, s.lora_rank),
             matmul(matmul(inputs, s.lora_kernel_a), s.lora_kernel_b))

\* the LoRA term and the bias added to the quantized matmul's output
add_lora_and_bias(s, inputs, x) ==
    IF s.lora_enabled
    THEN IF inputs.shape[2] # s.lora_kernel_a.shape[1]
         THEN NoOutputs("ValueError: shapes")
         ELSE [raised |-> "none", outputs |-> add_bias(s, add(x, lora_term(s, inputs)))]
    ELSE [raised |-> "none", outputs |-> add_bias(s, x)]

\* Dense.call: matmul with the kernel property, then the bias
full_precision_call(s, inputs) ==
    LET k == kernel(s)
    IN  IF k.raised # "none" THEN NoOutputs(k.raised)
        ELSE IF inputs.shape[2] # k.value.shape[1] THEN NoOutputs("ValueError: shapes")
        ELSE [raised |-> "none", outputs |-> add_bias(s, matmul(inputs, k.value))]

\* the forward function of matmul_with_inputs_gradient, given the kernel
\* the matmul uses (the int8 kernel, or the unpacked int4 kernel)
quantized_matmul(inputs, kernel_value, kernel_scale) ==
    LET q == inputs_quantizer(inputs)
    IN  descale(matmul(q.value, kernel_value), q.scale, kernel_scale)

\* Dense._int8_call
_int8_call(s, inputs) ==
    IF ~Has(s.kernel) \/ ~Has(s.kernel_scale) THEN NoOutputs("AttributeError")
    ELSE IF inputs.shape[2] # s.kernel.shape[1] THEN NoOutputs("ValueError: shapes")
    ELSE add_lora_and_bias(s, inputs,
                           quantized_matmul(inputs, Value(s.kernel), Value(s.kernel_scale)))

\* Dense._int4_call
_int4_call(s, inputs) ==
    IF ~Has(s.kernel) \/ ~Has(s.kernel_scale) THEN NoOutputs("AttributeError")
    ELSE LET unpacked_kernel == unpack_int4(Value(s.kernel), s.orig_input_dim)
         IN  IF inputs.shape[2] # unpacked_kernel.shape[1]
             THEN NoOutputs("ValueError: shapes")
             ELSE add_lora_and_bias(s, inputs,
                                    quantized_matmul(inputs, unpacked_kernel,
                                                     Value(s.kernel_scale)))

\* grad_fn of _int8_call: (inputs_grad, None, None)
_int8_grad_fn(s, upstream) ==
    LET float_kernel == divide(Value(s.kernel), s.kernel_scale)
    IN  [inputs |-> matmul(upstream, transpose(float_kernel)),
         kernel |-> NoneTensor,
         kernel_scale |-> NoneTensor]

\* grad_fn of _int4_call without the unpacking
_int4_grad_fn_packed(s, upstream) ==
    LET float_kernel == divide(Value(s.kernel), s.kernel_scale)
    IN  [inputs |-> matmul(upstream, transpose(float_kernel)),
         kernel |-> NoneTensor,
         kernel_scale |-> NoneTensor]

\* grad_fn of _int4_call: (inputs_grad, None, None)
_int4_grad_fn(s, upstream) ==
    LET unpacked_kernel == unpack_int4(Value(s.kernel), s.orig_input_dim)
        float_kernel == divide(unpacked_kernel, s.kernel_scale)
    IN  [inputs |-> matmul(upstream, transpose(float_kernel)),
         kernel |-> NoneTensor,
         kernel_scale |-> NoneTensor]

\* ------------------------------------------------------------------ float8
E4M3Max == 448
E4M3Mantissa == 3
E4M3MinExp == -6
E5M2Max == 57344
E5M2Mantissa == 2
E5M2MinExp == -14
BF16Mantissa == 7
BF16MinExp == -126

Pow2(e) == IF e >= 0 THEN RInt(2 ^ e) ELSE Rat(1, 2 ^ (-e))

\* floor(log2(a)) for a > 0, not below emin (the subnormal range)
RECURSIVE Log2Floor(_, _, _)
Log2Floor(a, e, emin) ==
    IF RLess(a, RInt(1))
    THEN IF e <= emin THEN emin ELSE Log2Floor(RMul(a, RInt(2)), e - 1, emin)
    ELSE IF RLess(a, RInt(2)) THEN e
    ELSE Log2Floor(RDiv(a, RInt(2)), e + 1, emin)

\* the nearest value (ties to even) of a binary floating-point format with
\* `mantissa` explicit mantissa bits and minimum normal exponent emin
FloatRound(v, mantissa, emin) ==
    IF v[1] = 0 THEN v
    ELSE LET a == RAbs(v)
             e0 == Log2Floor(a, 0, emin)
             e == IF e0 < emin THEN emin ELSE e0
             step == Pow2(e - mantissa)
             n == RRound(RDiv(a, step))
             r == RMul(RInt(n), step)
         IN  IF v[1] < 0 THEN <<-r[1], r[2]>> ELSE r

RClip(v, hi) ==
    IF RLess(RInt(hi), v) THEN RInt(hi)
    ELSE IF RLess(v, RInt(-hi)) THEN RInt(-hi) ELSE v

\* quantizers.quantize_and_dequantize(x, scale, float8 format, compute_dtype)
quantize_and_dequantize(x, scale, fmax, mantissa, emin) ==
    Tensor(x.shape, "float32",
           [k \in 1..Len(x.val) |->
               RDiv(FloatRound(RClip(RMul(x.val[k], scale.val[1]), fmax), mantissa, emin),
                    scale.val[1])])

RECURSIVE MaxAbs(_, _)
MaxAbs(val, n) == IF n = 0 THEN RInt(0) ELSE RMax(MaxAbs(val, n - 1), RAbs(val[n]))

\* quantizers.compute_float8_scale(amax, scale, dtype_max)
compute_float8_scale(amax, scale, dtype_max) ==
    Tensor(<<>>, "float32",
           <<IF RLess(RInt(0), amax) THEN RDiv(RInt(dtype_max), amax) ELSE scale.val[1]>>)

\* quantizers.compute_float8_amax_history(x, amax_history): the window
\* shifts by one and takes max|x|
compute_float8_amax_history(x, amax_history) ==
    Tensor(amax_history.shape, "float32",
           Append(Tail(amax_history.val), MaxAbs(x.val, Len(x.val))))

\* bias = ops.cast(ops.cast(bias, "bfloat16"), bias.dtype)
bias_bf16(s) ==
    Tensor(<<1, s.bias.shape[1]>>, "float32",
           [k \in 1..Len(s.bias.val) |-> FloatRound(s.bias.val[k], BF16Mantissa, BF16MinExp)])

\* Dense._float8_call: the forward value
_float8_call(s, inputs) ==
    IF s.lora_enabled THEN NoOutputs("NotImplementedError")
    ELSE IF ~Has(s.kernel) THEN NoOutputs("AttributeError")
    ELSE IF inputs.shape[2] # s.kernel.shape[1] THEN NoOutputs("ValueError: shapes")
    ELSE LET qdq_inputs == quantize_and_dequantize(inputs, s.inputs_scale, E4M3Max,
                                                   E4M3Mantissa, E4M3MinExp)
             qdq_kernel == quantize_and_dequantize(Value(s.kernel), s.kernel_scale,
                                                   E4M3Max, E4M3Mantissa, E4M3MinExp)
             x == matmul(qdq_inputs, qdq_kernel)
         IN  [raised |-> "none",
              outputs |-> IF Has(s.bias) THEN add(x, bias_bf16(s)) ELSE x]

\* grad of quantized_dequantize_inputs: (upstream, new_scale, new_amax_history),
\* the last two None unless training
quantized_dequantize_inputs_grad(x, scale, amax_history, training) ==
    IF training
    THEN [new_scale |-> compute_float8_scale(MaxAbs(amax_history.val, Len(amax_history.val)),
                                             scale, E4M3Max),
          new_amax_history |-> compute_float8_amax_history(x, amax_history)]
    ELSE [new_scale |-> NoneTensor, new_amax_history |-> NoneTensor]

\* grad of quantized_dequantize_outputs:
\* (qdq_upstream, new_scale, new_amax_history)
quantized_dequantize_outputs_grad(upstream, scale, amax_history) ==
    [qdq_upstream |-> quantize_and_dequantize(upstream, scale, E5M2Max,
                                              E5M2Mantissa, E5M2MinExp),
     new_scale |-> compute_float8_scale(MaxAbs(amax_history.val, Len(amax_history.val)),
                                        scale, E5M2Max),
     new_amax_history |-> compute_float8_amax_history(upstream, amax_history)]

NoGrads ==
    [inputs |-> NoneTensor, kernel |-> NoneTensor, kernel_scale |-> NoneTensor,
     inputs_scale |-> NoneTensor, inputs_amax_history |-> NoneTensor,
     kernel_amax_history |-> NoneTensor, outputs_grad_scale |-> NoneTensor,
     outputs_grad_amax_history |-> NoneTensor]

\* the backward pass of _float8_call for the upstream gradient of the
\* outputs: the gradients the three custom-gradient functions return, with
\* the matmul's own gradients between them
_float8_grad(s, inputs, training, upstream) ==
    LET o == quantized_dequantize_outputs_grad(upstream, s.outputs_grad_scale,
                                               Value(s.outputs_grad_amax_history))
        qdq_inputs == quantize_and_dequantize(inputs, s.inputs_scale, E4M3Max,
                                              E4M3Mantissa, E4M3MinExp)
        qdq_kernel == quantize_and_dequantize(Value(s.kernel), s.kernel_scale,
                                              E4M3Max, E4M3Mantissa, E4M3MinExp)
        i == quantized_dequantize_inputs_grad(inputs, s.inputs_scale,
                                              Value(s.inputs_amax_history), training)
        k == quantized_dequantize_inputs_grad(Value(s.kernel), s.kernel_scale,
                                              Value(s.kernel_amax_history), training)
    IN  [inputs |-> matmul(o.qdq_upstream, transpose(qdq_kernel)),
         kernel |-> matmul(transpose(qdq_inputs), o.qdq_upstream),
         kernel_scale |-> k.new_scale,
         inputs_scale |-> i.new_scale,
         inputs_amax_history |-> i.new_amax_history,
         kernel_amax_history |-> k.new_amax_history,
         outputs_grad_scale |-> o.new_scale,
         outputs_grad_amax_history |-> o.new_amax_history]

\* the custom gradient of the last forward pass, applied to `upstream`
gradient(s, inputs, training, upstream) ==
    IF s.quantization_mode = "float8" THEN _float8_grad(s, inputs, training, upstream)
    ELSE LET g == IF s.quantization_mode = "int4" THEN _int4_grad_fn(s, upstream)
                  ELSE _int8_grad_fn(s, upstream)
         IN  [NoGrads EXCEPT !.inputs = g.inputs, !.kernel = g.kernel,
                             !.kernel_scale = g.kernel_scale]

\* what a forward pass hands back: the layer with the outputs or the exception
Forwarded(s, r) == [self |-> s, raised |-> r.raised, outputs |-> r.outputs]

\* the forward dispatch with a _float8_call that does not look at LoRA
call_float8_ignores_lora(s, inputs, training) ==
    Forwarded(s, IF s.quantization_mode = "float8"
                 THEN _float8_call([s EXCEPT !.lora_enabled = FALSE], inputs)
                 ELSE IF s.quantization_mode = "int8" THEN _int8_call(s, inputs)
                 ELSE IF s.quantization_mode = "int4" THEN _int4_call(s, inputs)
                 ELSE full_precision_call(s, inputs))

\* the forward dispatch with a _float8_call that writes the new amax
\* history of the inputs into the layer
call_float8_updates_history(s, inputs, training) ==
    Forwarded(IF /\ s.quantization_mode = "float8" /\ ~s.lora_enabled
                 /\ Has(s.kernel) /\ Has(s.inputs_amax_history)
              THEN [s EXCEPT !.inputs_amax_history.val =
                                compute_float8_amax_history(
                                    inputs, Value(s.inputs_amax_history)).val]
              ELSE s,
              IF s.quantization_mode = "float8" THEN _float8_call(s, inputs)
              ELSE IF s.quantization_mode = "int8" THEN _int8_call(s, inputs)
              ELSE IF s.quantization_mode = "int4" THEN _int4_call(s, inputs)
              ELSE full_precision_call(s, inputs))

\* Layer.__call__ on a built layer: the forward pass the quantization mode
\* selects (call, _int8_call, _int4_call, _float8_call)
call(s, inputs, training) ==
    Forwarded(s, IF s.quantization_mode = "float8" THEN _float8_call(s, inputs)
                 ELSE IF s.quantization_mode = "int8" THEN _int8_call(s, inputs)
                 ELSE IF s.quantization_mode = "int4" THEN _int4_call(s, inputs)
                 ELSE full_precision_call(s, inputs))

\* ------------------------------------------------------- the state machine
\* self: the layer; store: what the last save wrote; op, raised: the last
\* call and its exception; fwd: the last successful forward pass and the
\* upstream gradient given to its custom gradient; grads: what the custom
\* gradient returned; nib: the matrix the nibble packer is working on
VARIABLES self, store, op, raised, fwd, grads, nib

vars == <<self, store, op, raised, fwd, grads, nib>>

Modes == {"none", "int8", "int4", "float8"}
Seeds == 1..MaxSeed
Ranks == {MaxRank}
Alphas == {None, MaxAlpha}

NoFwd ==
    [inputs |-> NoneTensor, training |-> FALSE, outputs |-> NoneTensor,
     upstream |-> NoneTensor]

NoNib == [step |-> "idle", x |-> NoneTensor, packed |-> NoneTensor, unpacked |-> NoneTensor]

Init ==
    /\ self \in {DenseInit(MaxUnits, b, k, c, la[1], la[2], m) :
                    b \in BOOLEAN, k \in Seeds, c \in BOOLEAN,
                    la \in {<<None, None>>} \cup (Ranks \X Alphas), m \in Modes}
    /\ store = <<>>
    /\ op = "__init__"
    /\ raised = "none"
    /\ fwd = NoFwd
    /\ grads = NoGrads
    /\ nib = NoNib

\* a method has returned or raised; the gradient function of an earlier
\* forward pass is dropped
Do(name, r) ==
    /\ self' = r.self
    /\ raised' = r.raised
    /\ op' = name
    /\ fwd' = NoFwd
    /\ grads' = NoGrads
    /\ UNCHANGED nib

Build ==
    /\ ~self.built
    /\ \E input_dim \in 1..MaxInputDim : Do("build", build(self, input_dim))
    /\ UNCHANGED store

EnableLora ==
    /\ self.n_variables < MaxVariables
    /\ \E rank \in Ranks, alpha \in Alphas, a \in Seeds, b \in {Zeros} \cup Seeds :
          Do("enable_lora", enable_lora(self, rank, alpha, a, b))
    /\ UNCHANGED store

Quantize ==
    /\ self.n_quantize < MaxQuantize
    /\ \E mode \in {"int8", "int4", "float8", "int2"}, build_fails \in BOOLEAN :
          LET r == quantize(self, mode, build_fails)
          IN  Do("quantize", [r EXCEPT !.self.n_quantize = @ + 1])
    /\ UNCHANGED store

Save ==
    LET r == save_own_variables(self, <<>>)
    IN  /\ Do("save_own_variables", r)
        /\ store' = r.store

\* the stores load is given: what the last save wrote, cut after any key,
\* or with one more key
StoreInputs ==
    {SubSeq(store, 1, n) : n \in 0..Len(store)}
        \cup {Append(store, Fill(<<>>, "float32", RInt(1)))}

Load ==
    /\ self.n_load < MaxLoad
    /\ \E st \in StoreInputs :
          LET r == load_own_variables(self, st)
          IN  Do("load_own_variables", [r EXCEPT !.self.n_load = @ + 1])
    /\ UNCHANGED store

\* the batches a built layer is called with: one row of input_dim features
\* (the layer's input_spec rejects any other last dimension)
Inputs(s) == {Initializer(seed, <<1, s.input_dim>>, "float32") : seed \in Seeds}

\* the upstream gradients of the outputs
Upstreams(s) == {Initializer(seed, <<1, s.units>>, "float32") : seed \in Seeds}

\* a forward pass has returned or raised; the tape keeps what a successful
\* one was given
DoCall(r, inputs, training) ==
    /\ self' = r.self
    /\ raised' = r.raised
    /\ op' = "call"
    /\ fwd' = IF r.raised = "none"
              THEN [inputs |-> inputs, training |-> training,
                    outputs |-> r.outputs, upstream |-> NoneTensor]
              ELSE NoFwd
    /\ grads' = NoGrads

Call ==
    /\ self.built
    /\ \E inputs \in Inputs(self), training \in BOOLEAN :
          DoCall(call(self, inputs, training), inputs, training)
    /\ UNCHANGED <<store, nib>>

\* the autodiff engine calls the custom gradient of the last forward pass
\* (the quantized modes define one)
Gradient ==
    /\ fwd.outputs # NoneTensor
    /\ self.quantization_mode # "none"
    /\ \E upstream \in Upstreams(self) :
          /\ grads' = gradient(self, fwd.inputs, fwd.training, upstream)
          /\ fwd' = [fwd EXCEPT !.upstream = upstream]
    /\ op' = "grad"
    /\ raised' = "none"
    /\ UNCHANGED <<self, store, nib>>

Next == Build \/ EnableLora \/ Quantize \/ Save \/ Load \/ Call \/ Gradient

Spec == Init /\ [][Next]_vars

\* ------------------------------------------------- the nibble packer alone
MaxPackRows == 3
Int4Range == -8..7
EdgeValues == {-8, -1, 7}

\* every one-column matrix over the whole 4-bit range, and every two-column
\* matrix over its edge values, of 1..MaxPackRows rows
PackInputs ==
    UNION {{Tensor(<<r, 1>>, "int8", [k \in 1..r |-> RInt(f[k])]) :
               f \in [1..r -> Int4Range]} : r \in 1..MaxPackRows}
    \cup UNION {{Tensor(<<r, 2>>, "int8", [k \in 1..(2 * r) |-> RInt(f[k])]) :
                    f \in [1..(2 * r) -> EdgeValues]} : r \in 1..MaxPackRows}

\* a built full-precision layer whose kernel holds x
PackLayer(x) ==
    LET b == build(DenseInit(x.shape[2], FALSE, HeUniform, FALSE, None, None, "none"),
                   x.shape[1]).self
    IN  [b EXCEPT !.kernel.val = x.val]

PackInit ==
    /\ self = DenseInit(MaxUnits, FALSE, HeUniform, FALSE, None, None, "none")
    /\ store = <<>>
    /\ op = "__init__"
    /\ raised = "none"
    /\ fwd = NoFwd
    /\ grads = NoGrads
    /\ nib \in {[NoNib EXCEPT !.step = "init", !.x = x] : x \in PackInputs}

Pack ==
    /\ nib.step = "init"
    /\ nib' = [nib EXCEPT !.step = "packed", !.packed = pack_int4(nib.x)]
    /\ UNCHANGED <<self, store, op, raised, fwd, grads>>

Unpack ==
    /\ nib.step = "packed"
    /\ nib' = [nib EXCEPT !.step = "unpacked",
                          !.unpacked = unpack_int4(nib.packed, nib.x.shape[1])]
    /\ UNCHANGED <<self, store, op, raised, fwd, grads>>

\* quantize("int4") on a layer whose kernel is the matrix
QuantizeInt4 ==
    /\ nib.step = "init"
    /\ LET r == quantize(PackLayer(nib.x), "int4", FALSE)
       IN  /\ self' = r.self
           /\ raised' = r.raised
    /\ op' = "quantize"
    /\ nib' = [nib EXCEPT !.step = "quantized"]
    /\ UNCHANGED <<store, fwd, grads>>

PackNext == Pack \/ Unpack \/ QuantizeInt4

PackSpec == PackInit /\ [][PackNext]_vars

\* ------------------------------------------------------------------ claims

\* C1: enable_lora called on a layer that is not built, has a kernel
\* constraint, or already has LoRA enabled raises and leaves the layer as it
\* was; a call that succeeds was made on a built, unconstrained layer without
\* LoRA; lora_enabled turns true only in enable_lora (called directly or by
\* build) and never turns false again, so enable_lora succeeds at most once.
C1_EnableLoraOnce ==
    /\ [][(op' = "enable_lora"
             /\ (~self.built \/ self.kernel_constraint \/ self.lora_enabled))
          => (raised' # "none" /\ self' = self)]_vars
    /\ [][(op' = "enable_lora" /\ raised' = "none")
          => (self.built /\ ~self.kernel_constraint /\ ~self.lora_enabled
              /\ self'.lora_enabled)]_vars
    /\ [][(~self.lora_enabled /\ self'.lora_enabled)
          => (op' \in {"enable_lora", "build"} /\ self'.built
              /\ ~self.kernel_constraint)]_vars
    /\ [][self.lora_enabled => self'.lora_enabled]_vars

\* a second enable_lora call on a LoRA-enabled layer was rejected
C1_Witness ==
    /\ op = "enable_lora"
    /\ raised = "ValueError: lora already enabled"
    /\ self.lora_enabled
    /\ Has(self.lora_kernel_b)

\* C2 as claimed: no reachable state has mode float8 with LoRA enabled.
C2_Original == ~(self.quantization_mode = "float8" /\ self.lora_enabled)

\* C2 amended: enable_lora does not look at the quantization mode: on a
\* built float8 layer that holds its kernel, has no kernel constraint and no
\* LoRA yet, it succeeds.  The float8/LoRA error is raised by the forward
\* call: every call on a float8 layer with LoRA enabled raises
\* NotImplementedError and changes nothing.
C2_Float8LoraFailsAtCall ==
    /\ [][(op' = "call" /\ self.quantization_mode = "float8" /\ self.lora_enabled)
          => (raised' = "NotImplementedError" /\ self' = self)]_vars
    /\ [][(op' = "enable_lora" /\ self.quantization_mode = "float8" /\ self.built
             /\ Has(self.kernel) /\ ~self.kernel_constraint /\ ~self.lora_enabled)
          => (raised' = "none" /\ self'.lora_enabled)]_vars

C2_Witness ==
    /\ op = "call"
    /\ raised = "NotImplementedError"
    /\ self.quantization_mode = "float8"
    /\ self.lora_enabled

\* the buffer set a layer holds: the kernel's dtype, the kind of
\* kernel_scale, and whether the float8 scale/history buffers exist
Materialized(s) ==
    [kernel |-> s.kernel.dtype,
     kernel_scale |-> IF ~Has(s.kernel_scale) THEN "absent"
                      ELSE IF s.kernel_scale.shape = <<>> THEN "scalar" ELSE "per-channel",
     float8 |-> {n \in {"inputs_scale", "inputs_amax_history", "kernel_amax_history",
                        "outputs_grad_scale", "outputs_grad_amax_history"} : Has(s[n])}]

SelectedBy(mode) ==
    IF mode = "none"
    THEN [kernel |-> "float32", kernel_scale |-> "absent", float8 |-> {}]
    ELSE IF mode \in {"int8", "int4"}
    THEN [kernel |-> "int8", kernel_scale |-> "per-channel", float8 |-> {}]
    ELSE [kernel |-> "float32", kernel_scale |-> "scalar",
          float8 |-> {"inputs_scale", "inputs_amax_history", "kernel_amax_history",
                      "outputs_grad_scale", "outputs_grad_amax_history"}]

\* C3 as claimed: a built layer holds exactly the buffer set its
\* quantization mode selects.  (Layers whose kernel a failed quantize has
\* removed are the subject of C4 and are left out here.)
C3_Original ==
    (self.built /\ Has(self.kernel))
        => Materialized(self) = SelectedBy(self.quantization_mode)

\* C4 as claimed: a quantize call that raises leaves the kernel and the
\* mode as they were.
C4_Original ==
    [][(op' = "quantize" /\ raised' # "none")
       => (self'.kernel = self.kernel
           /\ self'.quantization_mode = self.quantization_mode)]_vars

\* the order the claims give for the variables after the kernel
ClaimedOrder(mode, use_bias) ==
    (IF use_bias THEN <<"bias">> ELSE <<>>)
    \o (CASE mode \in {"int8", "int4"} -> <<"kernel_scale">>
          [] mode = "float8" -> <<"inputs_scale", "inputs_amax_history", "kernel_scale",
                                  "kernel_amax_history", "outputs_grad_scale",
                                  "outputs_grad_amax_history">>
          [] OTHER -> <<>>)

ClaimedVariables(s) == <<"kernel">> \o ClaimedOrder(s.quantization_mode, s.use_bias)

\* the number of store entries a layer expects
ExpectedCount(s) == IF s.built THEN Len(ClaimedVariables(s)) ELSE 0

\* C5 as claimed: given a store whose number of entries differs from the
\* number expected, load_own_variables raises the count-mismatch error and
\* assigns nothing.
C5_Original ==
    \A st \in StoreInputs :
        Len(st) # ExpectedCount(self)
            => LET r == load_own_variables(self, st)
               IN  /\ r.raised \in {"ValueError: variable count mismatch",
                                    "ValueError: never built"}
                   /\ r.self = self

\* C6 as claimed: a build that enables LoRA from the constructor's
\* lora_rank keeps the constructor's lora_alpha.
C6_Original ==
    [][(op' = "build" /\ self.lora_rank # None /\ self'.lora_enabled)
       => (self'.lora_alpha = self.lora_alpha
           /\ self'.lora_rank = self.lora_rank)]_vars

\* store st holds, under the keys "0".."n-1", the layer's variables in the
\* claimed order: without LoRA their very values; with LoRA the merged
\* kernel and (int8/int4) the merged per-channel scale at the positions of
\* kernel and kernel_scale, and the other variables' values
SavedInOrder(s, st) ==
    LET names == ClaimedVariables(s)
        merged(n) == s.lora_enabled
                        /\ (n = "kernel"
                            \/ (n = "kernel_scale" /\ s.quantization_mode \in {"int8", "int4"}))
    IN  /\ Len(st) = Len(names)
        /\ \A i \in 1..Len(names) :
              IF merged(names[i])
              THEN /\ st[i].dtype = s[names[i]].dtype
                   /\ Len(st[i].shape) = (IF names[i] = "kernel" THEN 2 ELSE 1)
                   /\ st[i].shape[Len(st[i].shape)] = s.units
              ELSE st[i] = Value(s[names[i]])

\* the value a variable of dtype `dtype` holds after assign(t)
Converted(dtype, t) ==
    IF dtype = "int8" /\ t.dtype # "int8"
    THEN [k \in 1..Len(t.val) |-> RInt(RTruncInt8(t.val[k]))]
    ELSE t.val

\* a successful load has put store entry i into the i-th variable of the
\* claimed order
LoadedInOrder(s, t, st) ==
    LET names == ClaimedVariables(s)
    IN  \A i \in 1..Len(names) :
            /\ i <= Len(st)
            /\ t[names[i]].val = Converted(s[names[i]].dtype, st[i])

\* the layer after load_own_variables(st) has returned
Loaded(s, st) == [load_own_variables(s, st).self EXCEPT !.n_load = @ + 1]

\* C7 as claimed: every save on a built layer writes the variables in the
\* fixed order; a load reads the same positions; an unbuilt layer saves
\* nothing.
C7_Original ==
    /\ [][op' = "save_own_variables"
          => IF self.built THEN raised' = "none" /\ SavedInOrder(self, store')
             ELSE store' = <<>>]_vars
    /\ [][(op' = "load_own_variables" /\ raised' = "none" /\ self.built)
          => \A st \in StoreInputs :
                (load_own_variables(self, st).raised = "none" /\ Loaded(self, st) = self')
                   => LoadedInOrder(self, self', st)]_vars

\* C7 amended: a save on a built layer either raises and writes nothing, or
\* writes exactly the keys "0".."n-1" in the fixed order; it succeeds
\* whenever the layer holds its kernel and LoRA is disabled, and it raises
\* whenever the mode is float8 and LoRA is enabled.  A load that succeeds
\* has read the same positions into the same variables; an unbuilt layer
\* saves nothing.
C7_SaveLoadOrder ==
    /\ [][op' = "save_own_variables"
          => IF ~self.built THEN store' = <<>> /\ raised' = "none"
             ELSE IF raised' = "none" THEN SavedInOrder(self, store')
             ELSE store' = <<>>]_vars
    /\ [][(op' = "save_own_variables" /\ self.built /\ Has(self.kernel)
             /\ ~self.lora_enabled) => raised' = "none"]_vars
    /\ [][(op' = "save_own_variables" /\ self.built
             /\ self.quantization_mode = "float8" /\ self.lora_enabled)
          => raised' # "none"]_vars
    /\ [][(op' = "load_own_variables" /\ raised' = "none" /\ self.built)
          => \A st \in StoreInputs :
                (load_own_variables(self, st).raised = "none" /\ Loaded(self, st) = self')
                   => LoadedInOrder(self, self', st)]_vars

\* a float8 layer with a bias has saved its eight variables
C7_Witness ==
    /\ op = "save_own_variables"
    /\ raised = "none"
    /\ self.quantization_mode = "float8"
    /\ self.use_bias
    /\ Len(store) = 8
    /\ store[2] = Value(self.bias)
    /\ store[5] = Value(self.kernel_scale)

\* C8: a save, with or without the LoRA merge, in every mode, leaves every
\* field of the layer as it was.
C8_SaveLeavesLayer ==
    [][op' = "save_own_variables" => self' = self]_vars

\* a quantized LoRA layer has saved a merged kernel that differs from the
\* base kernel it still holds
C8_Witness ==
    /\ op = "save_own_variables"
    /\ raised = "none"
    /\ self.lora_enabled
    /\ self.quantization_mode \in {"int8", "int4"}
    /\ store[1].val # self.kernel.val
    /\ \E k \in 1..Len(self.lora_kernel_b.val) : self.lora_kernel_b.val[k] # RInt(0)

\* C9: with LoRA disabled the merge for serialization returns what the
\* layer holds: the stored kernel and kernel_scale in int8/int4/float8 mode,
\* the base kernel and no scale in full precision; a save then writes that
\* kernel (and, for int8/int4, that scale) to the store.
C9_MergeIdentityWithoutLora ==
    /\ [](self.built /\ ~self.lora_enabled /\ Has(self.kernel)
          => LET m == _get_kernel_with_merged_lora(self)
             IN  /\ m.raised = "none"
                 /\ m.kernel_value = Value(self.kernel)
                 /\ m.kernel_scale = IF self.quantization_mode = "none" THEN NoneTensor
                                     ELSE Value(self.kernel_scale))
    /\ [][(op' = "save_own_variables" /\ self.built /\ ~self.lora_enabled
             /\ Has(self.kernel))
          => /\ store'[1] = Value(self.kernel)
             /\ self.quantization_mode \in {"int8", "int4"}
                   => store'[Len(store')] = Value(self.kernel_scale)]_vars

\* a quantized layer without LoRA, its kernel not all zero, has saved its
\* kernel and scale as they are
C9_Witness ==
    /\ op = "save_own_variables"
    /\ raised = "none"
    /\ ~self.lora_enabled
    /\ self.quantization_mode \in {"int8", "int4"}
    /\ Len(store) > 0
    /\ store[1] = Value(self.kernel)
    /\ store[Len(store)] = Value(self.kernel_scale)
    /\ \E k \in 1..Len(self.kernel.val) : self.kernel.val[k] # RInt(0)

\* the layer C10 loads into: a fresh layer of the same mode, units and
\* use_bias, without LoRA, built for the input dimension of factor A
FreshLayer(s) ==
    build(DenseInit(s.units, s.use_bias, s.kernel_initializer, FALSE, None, None,
                    s.quantization_mode),
          s.lora_kernel_a.shape[1]).self

\* quantize(dequantize(base kernel, base scale) + (alpha/rank) * (A @ B))
\* with the mode's own range, packed again for int4
ClaimedMerge(s) ==
    LET int4 == s.quantization_mode = "int4"
        base == IF int4 THEN unpack_int4(Value(s.kernel), s.orig_input_dim)
                ELSE Value(s.kernel)
        merged == add(divide(base, s.kernel_scale),
                      scale_by(Rat(s.lora_alpha, s.lora_rank),
                               matmul(s.lora_kernel_a, s.lora_kernel_b)))
        q == IF int4 THEN abs_max_quantize(merged, -8, 7)
             ELSE abs_max_quantize(merged, -127, 127)
    IN  [kernel |-> IF int4 THEN pack_int4(q.value) ELSE q.value,
         kernel_scale |-> squeeze(q.scale)]

SaveLoadCycle(s) ==
    LET sv == save_own_variables(s, <<>>)
        ld == load_own_variables(s, sv.store)
    IN  [ok |-> sv.raised = "none" /\ ld.raised = "none",
         store |-> sv.store,
         self |-> ld.self]

AllZero(v) == \A k \in 1..Len(v.val) : v.val[k] = RInt(0)

\* C11 as claimed: for a built LoRA-enabled layer in full precision, int8 or int4,
\* once one save/load cycle of the layer on itself has succeeded (the kernel
\* is the merged value, both LoRA factors are zero), the next cycle succeeds
\* too, writes a store identical to the previous one and leaves every field
\* of the layer, kernel and scale included, unchanged.
C11_Original ==
    (self.built /\ self.lora_enabled
        /\ self.quantization_mode \in {"none", "int8", "int4"})
    => LET c1 == SaveLoadCycle(self)
       IN  c1.ok
           => LET c2 == SaveLoadCycle(c1.self)
              IN  /\ AllZero(c1.self.lora_kernel_a)
                  /\ AllZero(c1.self.lora_kernel_b)
                  /\ c1.self.kernel.val = c1.store[1].val
                  /\ c2.ok
                  /\ c2.store = c1.store
                  /\ c2.self = c1.self

\* ------------------------------------------------------------------- C12
\* enable_lora with the default initializers (he_uniform for A, zeros for B)
\* has just returned: self' is the layer it leaves
DefaultLoraEnabled ==
    /\ op' = "enable_lora"
    /\ raised' = "none"
    /\ \E rank \in Ranks, alpha \in Alphas :
          /\ enable_lora(self, rank, alpha, HeUniform, Zeros).raised = "none"
          /\ self' = enable_lora(self, rank, alpha, HeUniform, Zeros).self

\* C12: immediately after a successful enable_lora with the default
\* initializers factor B is all zeros and the effective weight is the base
\* weight: in full precision the kernel property returns the kernel the
\* layer had, and in int8/int4 mode the LoRA term of the forward pass is
\* zero and the forward pass returns (or raises) what it did before
C12_LoraStartsAtZero ==
    [][DefaultLoraEnabled =>
         /\ AllZero(self'.lora_kernel_b)
         /\ self'.quantization_mode = "none" =>
               /\ kernel(self').raised = "none"
               /\ kernel(self').value = Value(self.kernel)
               /\ kernel(self').value = kernel(self).value
         /\ self'.quantization_mode \in {"none", "int8", "int4"} =>
               \A x \in Inputs(self) :
                  /\ call(self', x, FALSE).raised = call(self, x, FALSE).raised
                  /\ call(self', x, FALSE).outputs = call(self, x, FALSE).outputs
                  /\ call(self', x, FALSE).raised = "none" =>
                        AllZero(lora_term(self', x))]_vars

\* a quantized layer with a non-zero kernel on which enable_lora has just
\* drawn a non-zero A and a zero B
C12_Witness ==
    /\ op = "enable_lora"
    /\ raised = "none"
    /\ self.quantization_mode = "int4"
    /\ self.lora_enabled
    /\ ~AllZero(self.kernel)
    /\ ~AllZero(self.lora_kernel_a)
    /\ AllZero(self.lora_kernel_b)

\* ------------------------------------------------------------------- C13
\* the three scales and the three amax histories of the float8 rescaler
RescalingState(s) ==
    <<s.inputs_scale, s.inputs_amax_history, s.kernel_scale, s.kernel_amax_history,
      s.outputs_grad_scale, s.outputs_grad_amax_history>>

\* a forward pass of a float8 layer has just run
Float8Forward == op' = "call" /\ self.quantization_mode = "float8"

\* the custom gradients of a float8 forward pass have just been evaluated
Float8Backward == op' = "grad" /\ self.quantization_mode = "float8"

\* C13 as stated: float8 forward calls leave the three scales and the three
\* amax histories as they were, and a new scale or a new history is computed
\* only when training is true
C13_Original ==
    [][/\ Float8Forward => RescalingState(self') = RescalingState(self)
       /\ (Float8Backward /\ ~fwd'.training) =>
             /\ grads'.inputs_scale = NoneTensor
             /\ grads'.inputs_amax_history = NoneTensor
             /\ grads'.kernel_scale = NoneTensor
             /\ grads'.kernel_amax_history = NoneTensor
             /\ grads'.outputs_grad_scale = NoneTensor
             /\ grads'.outputs_grad_amax_history = NoneTensor]_vars

\* C13: a float8 forward pass, with training false or true, leaves the whole
\* layer (so the three scales and the three amax histories) as it was; the
\* new scale and new history of the inputs and of the kernel are computed
\* only when training is true (None otherwise), while the gradient function
\* of the outputs computes a new scale and a new history whenever the
\* backward pass runs, whatever training is
C13_Float8ForwardFrame ==
    [][/\ Float8Forward => self' = self /\ RescalingState(self') = RescalingState(self)
       /\ Float8Backward =>
             /\ self' = self
             /\ fwd'.training = fwd.training
             /\ ~fwd'.training =>
                   /\ grads'.inputs_scale = NoneTensor
                   /\ grads'.inputs_amax_history = NoneTensor
                   /\ grads'.kernel_scale = NoneTensor
                   /\ grads'.kernel_amax_history = NoneTensor
             /\ fwd'.training =>
                   /\ grads'.inputs_scale # NoneTensor
                   /\ grads'.kernel_scale # NoneTensor
                   /\ grads'.inputs_amax_history.val[AmaxHistoryLength]
                         = MaxAbs(fwd'.inputs.val, Len(fwd'.inputs.val))
                   /\ grads'.kernel_amax_history.val[AmaxHistoryLength]
                         = MaxAbs(self.kernel.val, Len(self.kernel.val))
             /\ grads'.outputs_grad_scale # NoneTensor
             /\ grads'.outputs_grad_amax_history.val[AmaxHistoryLength]
                   = MaxAbs(fwd'.upstream.val, Len(fwd'.upstream.val))]_vars

\* a float8 layer was called with training false and the backward pass of
\* that call has run: the inputs' new scale is None, the outputs' new scale
\* and new history are not
C13_Witness ==
    /\ op = "grad"
    /\ self.quantization_mode = "float8"
    /\ ~fwd.training
    /\ fwd.outputs # NoneTensor
    /\ grads.inputs_scale = NoneTensor
    /\ grads.outputs_grad_scale # NoneTensor
    /\ grads.outputs_grad_amax_history # Value(self.outputs_grad_amax_history)

\* ------------------------------------------------------------------- C14
\* the two's-complement nibble of a value of [-8, 7]
TwosComplement4(v) == IF v < 0 THEN v + 16 ELSE v

\* the unsigned value of an int8 byte
UnsignedByte(b) == IF b < 0 THEN b + 256 ELSE b

\* packed holds x: byte i of a column has row 2i-1 of x in its low nibble
\* and row 2i in its high nibble, zero where x has no such row
PackedLayout(x, packed) ==
    /\ packed.shape = <<(x.shape[1] + 1) \div 2, x.shape[2]>>
    /\ packed.dtype = "int8"
    /\ \A i \in 1..packed.shape[1], j \in 1..packed.shape[2] :
          LET b == UnsignedByte(At(packed, i, j)[1])
          IN  /\ At(packed, i, j)[2] = 1
              /\ b % 16 = TwosComplement4(At(x, 2 * i - 1, j)[1])
              /\ b \div 16 = IF 2 * i <= x.shape[1]
                             THEN TwosComplement4(At(x, 2 * i, j)[1]) ELSE 0

\* C14: for every int8 matrix x over [-8, 7], of an even or odd row count,
\* pack_int4 stores row 2i-1 in the low and row 2i in the high nibble (zero
\* for an unpaired last row) in ceil(rows / 2) rows, and unpack_int4 of the
\* result with rows(x) is x; and after quantize("int4") the layer's kernel
\* unpacked with the retained _orig_input_dim is the int4-quantized kernel
C14_PackRoundTrip ==
    /\ nib.step \in {"packed", "unpacked"} => PackedLayout(nib.x, nib.packed)
    /\ nib.step = "unpacked" => nib.unpacked = nib.x
    /\ nib.step = "quantized" =>
          /\ raised = "none"
          /\ self.quantization_mode = "int4"
          /\ self.orig_input_dim = nib.x.shape[1]
          /\ self.kernel.shape = <<(nib.x.shape[1] + 1) \div 2, nib.x.shape[2]>>
          /\ unpack_int4(Value(self.kernel), self.orig_input_dim)
                = abs_max_quantize(Value(PackLayer(nib.x).kernel), -8, 7).value
          /\ unpack_int4(pack_int4(nib.x), nib.x.shape[1]) = nib.x

\* a matrix of three rows holding -8 and 7 came back from the round trip
C14_Witness ==
    /\ nib.step = "unpacked"
    /\ nib.x.shape = <<3, 1>>
    /\ nib.x.val[3] = RInt(-8)
    /\ nib.x.val[2] = RInt(7)
    /\ nib.unpacked = nib.x
    /\ nib.packed.shape = <<2, 1>>

\* ------------------------------------------------------------------- C15
\* ceil(n / 2)
PackedDimension(n) == (n + 1) \div 2

\* C15 as stated: an int4 layer built for input_dim stores its kernel in
\* ceil(input_dim / 2) rows and retains input_dim, and the LoRA factors
\* enable_lora allocates on it have input_dim rows (A) and units columns (B)
C15_Original ==
    (self.built /\ self.quantization_mode = "int4" /\ Has(self.kernel)) =>
        /\ self.kernel.shape = <<PackedDimension(self.input_dim), self.units>>
        /\ self.orig_input_dim = self.input_dim
        /\ \A rank \in Ranks, alpha \in Alphas, a \in Seeds :
              LET r == enable_lora(self, rank, alpha, a, Zeros)
              IN  r.raised = "none" =>
                     /\ r.self.lora_kernel_a.shape = <<self.input_dim, rank>>
                     /\ r.self.lora_kernel_b.shape = <<rank, self.units>>

\* ------------------------------------------------------------------- C16
\* the kernel the quantized matmul multiplies by: the int8 kernel, or the
\* int4 kernel unpacked to its original rows
MatmulKernel(s) ==
    IF s.quantization_mode = "int4"
    THEN unpack_int4(Value(s.kernel), s.orig_input_dim)
    ELSE Value(s.kernel)

\* sum over the first j output channels of G[1, j] * (K[l, j] / scale[j]),
\* a scalar scale dividing every channel
RECURSIVE InputGradient(_, _, _, _, _)
InputGradient(G, K, scale, l, j) ==
    IF j = 0 THEN RInt(0)
    ELSE RAdd(InputGradient(G, K, scale, l, j - 1),
              RMul(G.val[j], RDiv(At(K, l, j), Chan(scale, j))))

\* C16: in int8 and int4 mode the custom gradient returns, for the upstream
\* gradient G, G @ transpose(dequantized kernel) as the gradient of the
\* inputs, the dequantized kernel being the kernel (unpacked first for int4)
\* divided per output channel by kernel_scale, and None for the kernel and
\* for kernel_scale
C16_QuantizedInputGradient ==
    (op = "grad" /\ self.quantization_mode \in {"int8", "int4"}) =>
        LET K == MatmulKernel(self)
        IN  /\ grads.inputs.shape = <<1, K.shape[1]>>
            /\ K.shape[1] = self.input_dim
            /\ K.shape[2] = Len(fwd.upstream.val)
            /\ \A l \in 1..K.shape[1] :
                  grads.inputs.val[l]
                     = InputGradient(fwd.upstream, K, self.kernel_scale, l, K.shape[2])
            /\ grads.kernel = NoneTensor
            /\ grads.kernel_scale = NoneTensor

\* the gradient of an int4 layer of three inputs (two packed rows) has run
\* and is not zero
C16_Witness ==
    /\ op = "grad"
    /\ self.quantization_mode = "int4"
    /\ self.orig_input_dim = 3
    /\ self.kernel.shape[1] = 2
    /\ ~AllZero(self.kernel)
    /\ ~AllZero(grads.inputs)
    /\ grads.kernel = NoneTensor

\* ------------------------------------------------------------------- C17
\* every entry of the tensor is greater than zero
StrictlyPositive(t) == \A k \in 1..Len(t.val) : RLess(RInt(0), t.val[k])

====
